---- MODULE Spec2Model ----
(***************************************************************************)
(* The Redis-backed job scheduler of safety-rust: src/util/scheduler.rs    *)
(* (the Scheduler the bot runs), its first version src/scheduler.rs (used  *)
(* by src/test.rs against the same "jobs"/"schedule" keys), and the Redis  *)
(* commands they issue.  Every store round trip is one step; the commands  *)
(* of one MULTI/EXEC pipeline are applied in one step, as Redis does.      *)
(***************************************************************************)
EXTENDS Integers, Sequences, FiniteSets, TLC

(* ------------------------------ bounds -------------------------------- *)
NumIds == 2
MaxTime == 2
MaxJobs == 2
MaxOps == 3

Ids == 1..NumIds
Times == 1..MaxTime
Uids == 1..MaxJobs
Conns == {"c1", "c2"}
(* a Poll as the scheduler sees it: the u64 message id and the topic     *)
(* (author and channel are two more u64 fields, encoded like message);   *)
(* callers schedule polls with topic <<1>> under a message id of their   *)
(* own, and edit a job to the poll EditTask                               *)
Topics == {<<1>>}
EditTasks == {[message |-> 1, topic |-> << >>]}
Events == {<<1>>}

(* ------------------------------ codec --------------------------------- *)
(* bincode, byte by byte: a u64 is 8 bytes, little endian; a String is    *)
(* its u64 length and then its bytes; an enum is a u32 variant index (4   *)
(* bytes) and then the variant's fields.  Every number the model stores   *)
(* fits one byte, so the upper bytes of what it writes are zero; a number *)
(* read with a nonzero upper byte is at least 256 and is read as TooBig.  *)
Zeros(n) == [k \in 1..n |-> 0]

TooBig == -1

WriteU64(n) == <<n>> \o Zeros(7)

ReadU64(bytes, at) ==
  IF \A k \in 1..7 : bytes[at + k] = 0 THEN bytes[at] ELSE TooBig

NoTask == [message |-> 0, topic |-> << >>]

serialize(task) ==
  WriteU64(task.message) \o WriteU64(Len(task.topic)) \o task.topic

(* mutant: the topic is read one byte early *)
deserialize_off_by_one(bytes) ==
  IF Len(bytes) < 16 THEN [ok |-> FALSE, task |-> NoTask]
  ELSE LET n == ReadU64(bytes, 9)
       IN  IF n = TooBig \/ Len(bytes) - 16 < n
           THEN [ok |-> FALSE, task |-> NoTask]
           ELSE [ok |-> TRUE,
                 task |-> [message |-> ReadU64(bytes, 1),
                           topic |-> SubSeq(bytes, 16, 15 + n)]]

deserialize(bytes) ==
  IF Len(bytes) < 16 THEN [ok |-> FALSE, task |-> NoTask]
  ELSE LET n == ReadU64(bytes, 9)
       IN  IF n = TooBig \/ Len(bytes) - 16 < n
           THEN [ok |-> FALSE, task |-> NoTask]
           ELSE [ok |-> TRUE,
                 task |-> [message |-> ReadU64(bytes, 1),
                           topic |-> SubSeq(bytes, 17, 16 + n)]]

(* src/scheduler.rs with T = Task of src/test.rs: enum Task { Event(Event) }, *)
(* an Event seen as its first String field                                    *)
legacy_serialize(event) == Zeros(4) \o WriteU64(Len(event)) \o event

legacy_deserialize(bytes) ==
  IF Len(bytes) < 12 \/ \E k \in 1..4 : bytes[k] # 0
  THEN [ok |-> FALSE, event |-> << >>]
  ELSE LET n == ReadU64(bytes, 5)
       IN  IF n = TooBig \/ Len(bytes) - 12 < n
           THEN [ok |-> FALSE, event |-> << >>]
           ELSE [ok |-> TRUE, event |-> SubSeq(bytes, 13, 12 + n)]

(* ------------------------- execution behaviour ------------------------ *)
(* What a call does is a function of the task and of how the chat         *)
(* platform answers (the world): it yields the requests that reach the    *)
(* platform, in order, and whether the call panicked.                     *)
MaxReactions == 2
MaxCount == 2

(* a reaction of the fetched message: emoji is the position of its emoji  *)
(* in EMOJI_ORDER counted from 1, or 0 for an emoji that is not in it     *)
Emojis == 0..MaxReactions

Reaction == [emoji : Emojis, count : 1..MaxCount]

ReactionLists ==
  {r \in UNION {[1..n -> Reaction] : n \in 0..MaxReactions} :
     \A j, k \in DOMAIN r : j # k => r[j].emoji # r[k].emoji}

(* embeds[0].description: << >> for None, <<options>> for Some; an option *)
(* is the text after its "n. " prefix, here a number                      *)
Descriptions == {<< >>, <<<<1>>>>, <<<<1, 2>>>>}

NoMessage == [found |-> FALSE, embeds |-> << >>, reactions |-> << >>]

Messages ==
  {[found |-> TRUE, embeds |-> << >>, reactions |-> << >>]}
  \cup {[found |-> TRUE, embeds |-> <<d>>, reactions |-> r] :
          d \in Descriptions, r \in ReactionLists}

(* the answers of the platform: the message fetched (or not), whether     *)
(* to_user finds the author, whether a send to the channel succeeds       *)
Worlds == [fetch : Messages \cup {NoMessage}, user : BOOLEAN, send : BOOLEAN]

Request(kind, to) == [kind |-> kind, to |-> to, body |-> << >>]

Finished(requests) == [requests |-> requests, panicked |-> FALSE]

Panicked(requests) == [requests |-> requests, panicked |-> TRUE]

(* results.sort_by(|a, b| b.cmp(a)): descending by (count, option) *)
RECURSIVE sort_by_descending(_)
sort_by_descending(results) ==
  IF results = << >> THEN << >>
  ELSE LET k == CHOOSE k \in DOMAIN results :
                  \A j \in DOMAIN results :
                    \/ results[k][1] > results[j][1]
                    \/ results[k][1] = results[j][1] /\ results[k][2] >= results[j][2]
           rest == [j \in 1..(Len(results) - 1) |->
                      IF j < k THEN results[j] ELSE results[j + 1]]
       IN  <<results[k]>> \o sort_by_descending(rest)

(* the loop over message.reactions: a reaction counts when its emoji is   *)
(* in EMOJI_ORDER at an index below options.len()                         *)
RECURSIVE tally(_, _)
tally(reactions, options) ==
  IF reactions = << >> THEN << >>
  ELSE LET reaction == Head(reactions)
       IN  (IF reaction.emoji >= 1 /\ reaction.emoji <= Len(options)
            THEN <<<<reaction.count - 1, options[reaction.emoji]>>>>
            ELSE << >>)
           \o tally(Tail(reactions), options)

(* Poll::call; the poll is named by its message id *)
Poll_call(poll, world) ==
  LET fetched == Request("message", poll.message)
      message == world.fetch
  IN  IF ~message.found
      THEN (* to_user, then user.dm(..) without .await: the future is     *)
           (* dropped unpolled and no request is made                     *)
           Finished(<<fetched, Request("to_user", poll.message)>>)
      ELSE IF message.embeds = << >> THEN Finished(<<fetched>>)
      ELSE LET description == message.embeds[1]
               options == IF description = << >> THEN << >> ELSE description[1]
               results == sort_by_descending(tally(message.reactions, options))
           IN  IF results = << >>
               THEN (* results[0] is out of bounds *)
                    Panicked(<<fetched>>)
               ELSE LET max_count == results[1][1]
                        wins == SelectSeq(results, LAMBDA item : item[1] = max_count)
                        said == [Request("say", poll.message) EXCEPT
                                   !.body = <<wins, SubSeq(results, Len(wins) + 1,
                                                           Len(results))>>]
                    IN  Finished(<<fetched, said>>)

(* Event::call of commands/types.rs; the event is named by its text *)
Event_call(event, world) ==
  LET sent == Request("send_message", event)
  IN  IF world.send THEN Finished(<<sent>>)
      ELSE IF world.user
           THEN Finished(<<sent, Request("to_user", event), Request("dm", event)>>)
           ELSE Finished(<<sent, Request("to_user", event)>>)

(* Task::call *)
Task_call(task, world) ==
  IF task.kind = "Event" THEN Event_call(task.item, world)
  ELSE Poll_call(task.item, world)

(* --------------------------- Redis commands --------------------------- *)
JobsKey == <<"jobs", 0>>
ScheduleKey == <<"schedule", 0>>
MessageKey(m) == <<"message", m>>
CategoriesKey == <<"categories", 0>>

(* the commands the store knows, of those the program sends; any other    *)
(* name is answered with an "unknown command" error                       *)
RedisCommands ==
  {"WATCH", "UNWATCH", "MULTI", "EXEC", "GET", "SETEX", "HEXISTS", "HGET",
   "HGETALL", "HSET", "HDEL", "ZADD", "ZREM", "ZSCORE", "ZRANGEBYSCORE",
   "ZREMRANGEBYSCORE"}

(* cmd(name).query_async(con).await: Ok when the store accepts the command *)
query_async(name) == name \in RedisCommands

HExists(hash, field) == field \in DOMAIN hash

HSet(hash, field, value) ==
  [f \in DOMAIN hash \cup {field} |-> IF f = field THEN value ELSE hash[f]]

HDel(hash, fields) == [f \in DOMAIN hash \ fields |-> hash[f]]

ZAdd(zset, member, score) ==
  [m \in DOMAIN zset \cup {member} |-> IF m = member THEN score ELSE zset[m]]

ZRem(zset, members) == [m \in DOMAIN zset \ members |-> zset[m]]

ZScore(zset, member) == IF member \in DOMAIN zset THEN <<zset[member]>> ELSE << >>

InRange(zset, max) == {m \in DOMAIN zset : zset[m] <= max}

ZRemRangeByScore(zset, max) == [m \in DOMAIN zset \ InRange(zset, max) |-> zset[m]]

(* members by ascending score, equal scores by ascending member *)
RECURSIVE Ascending(_, _)
Ascending(zset, members) ==
  IF members = {} THEN << >>
  ELSE LET first == CHOOSE m \in members :
                      \A o \in members :
                        zset[m] < zset[o] \/ (zset[m] = zset[o] /\ m <= o)
       IN  <<first>> \o Ascending(zset, members \ {first})

(* mutant: the range excludes its upper end *)
ZRangeByScoreBelow(zset, max) == Ascending(zset, {m \in DOMAIN zset : zset[m] < max})

ZRangeByScore(zset, max) == Ascending(zset, InRange(zset, max))

SeqToSet(s) == {s[k] : k \in DOMAIN s}


(* ------------------------------- state -------------------------------- *)
VARIABLES
  jobs,       \* the "jobs" hash: job id -> payload (with who wrote it)
  schedule,   \* the "schedule" sorted set: job id -> due time
  message,    \* the keys named by a message id: message id -> job id (SETEX)
  watching,   \* per connection: the keys it has WATCHed
  dirty,      \* per connection: a watched key was modified since its WATCH
  op,         \* per connection: the Scheduler call in flight (behind the Mutex)
  ret,        \* what the step just taken returned to its caller, if it returned
  nextUid,    \* the next message id a caller will bring
  nOps,       \* calls started so far
  usedIds,    \* history: the ids schedule_job has committed under
  returned,   \* history: per job, in how many Ok results of a claim it was
  removed,    \* history: the jobs remove_job has deleted
  claimed,    \* history: the jobs the EXEC of a claim has fetched and deleted
  executed,   \* history: per job, how many times its call was invoked
  spawned,    \* per process: the tasks spawned to call claimed jobs, each the
              \* jobs it has still to call
  dispatch,   \* per process: its dispatch loop
  callee,     \* a call on its own: the task called,
  world,      \*   the answers of the chat platform,
  outcome,    \*   and what the call did
  categories, \* the "<guild>:categories" hash: category -> its emojis
  event_job,  \* the stored Task::Event of the event commands
  lock,       \* the Mutex around the scheduler: the handler holding it
  handler,    \* per command handler: its command, position and local event
  signups,    \* history: the members the signups and leaves have asked for
  adding      \* a do_option_add on its own: its poll, its options, its result

hist == <<usedIds, returned, removed, claimed, executed>>

run == <<spawned, dispatch>>

commands == <<event_job, lock, handler, signups>>

trial == <<callee, world, outcome, categories, commands, adding>>

vars ==
  <<jobs, schedule, message, watching, dirty, op, ret, nextUid, nOps, hist, run, trial>>

store == <<jobs, schedule, message>>

vars_of_scheduler ==
  <<jobs, schedule, message, watching, dirty, op, ret, nextUid, nOps, hist, run>>

NoJob == [bytes |-> << >>, uid |-> 0, kind |-> "none", src |-> NoTask]

Idle ==
  [name |-> "idle", pc |-> "idle", src |-> NoTask, bytes |-> << >>, uid |-> 0,
   id |-> 0, time |-> << >>, ts |-> 0, msg |-> 0, ready |-> << >>,
   fetched |-> << >>, score |-> << >>]

(* a return: the connection, the call, its argument (the job id of get_job *)
(* and edit_job, the message id of remove_job, the timestamp of a claim)   *)
(* and the Result                                                          *)
NoRet ==
  [conn |-> "", op |-> "none", arg |-> 0, status |-> "none", err |-> "", val |-> << >>]

Ok(name, val) == [NoRet EXCEPT !.op = name, !.status = "ok", !.val = val]

Err(name, why) == [NoRet EXCEPT !.op = name, !.status = "err", !.err = why]

Of(result, arg) == [result EXCEPT !.arg = arg]

NoOutcome == [requests |-> << >>, panicked |-> FALSE, called |-> FALSE]

NoCall == [kind |-> "none", item |-> << >>]

NoWorld == [fetch |-> NoMessage, user |-> FALSE, send |-> FALSE]

Running == [running |-> TRUE, failures |-> 0]

Constructed ==
  /\ jobs = << >>
  /\ schedule = << >>
  /\ message = << >>
  /\ watching = [c \in Conns |-> {}]
  /\ dirty = [c \in Conns |-> FALSE]
  /\ op = [c \in Conns |-> Idle]
  /\ ret = NoRet
  /\ nextUid = 1
  /\ nOps = 0
  /\ usedIds = {}
  /\ returned = [u \in Uids |-> 0]
  /\ removed = {}
  /\ claimed = {}
  /\ executed = [u \in Uids |-> 0]
  /\ spawned = [c \in Conns |-> {}]
  /\ dispatch = [c \in Conns |-> Running]

(* the event the commands are about, as the event command stored it *)
NewEvent == [members |-> {}, time |-> 0]

Handlers == {"h1", "h2"}

Users == {1, 2}

NoHandler == [cmd |-> "none", pc |-> "idle", user |-> 0, time |-> 0, event |-> NewEvent]

NoAdding == [existing |-> 0, options |-> << >>, called |-> FALSE,
             status |-> "none", edited |-> FALSE, labels |-> << >>,
             reactions |-> << >>]

(* no command is being handled *)
NoCommands ==
  /\ categories = << >>
  /\ event_job = NewEvent
  /\ lock = "free"
  /\ handler = [h \in Handlers |-> NoHandler]
  /\ signups = {}

Init ==
  /\ Constructed
  /\ callee = NoCall
  /\ world = NoWorld
  /\ outcome = NoOutcome
  /\ NoCommands
  /\ adding = NoAdding

(* ----------------------- WATCH / MULTI / EXEC ------------------------- *)
(* a write to the keys in `keys` by connection c: every other connection  *)
(* watching one of them will have its next EXEC refused                   *)
Touched(c, keys) ==
  [d \in Conns |-> IF d = c THEN FALSE
                   ELSE dirty[d] \/ (watching[d] \cap keys # {})]

(* the keys a command signals as modified: HSET and SETEX always, ZADD   *)
(* when it adds or moves the member, the deleting commands when they     *)
(* delete something                                                       *)
IfTouched(cond, key) == IF cond THEN {key} ELSE {}

Can(c, name, pc) == op[c].name = name /\ op[c].pc = pc

(* mutant: a call starts without the lock on the scheduler *)
StartUnlocked(c) == nOps < MaxOps

Start(c) == op[c].pc = "idle" /\ nOps < MaxOps

Goto(c, pc) == op' = [op EXCEPT ![c].pc = pc]

Returned(c, result) == ret' = [result EXCEPT !.conn = c]

Silent == ret' = NoRet

Return(c, result) ==
  /\ op' = [op EXCEPT ![c] = Idle]
  /\ Returned(c, result)

(* mutant: the pipeline runs although a watched key was modified *)
CommitUnwatched(c, j2, s2, m2, keys) ==
  /\ jobs' = j2
  /\ schedule' = s2
  /\ message' = m2
  /\ dirty' = Touched(c, keys)
  /\ watching' = [watching EXCEPT ![c] = {}]

(* the EXEC of a pipeline whose effect on the store is (j2, s2, m2); EXEC *)
(* clears the connection's watches whether it ran the pipeline or not     *)
Commit(c, j2, s2, m2, keys) ==
  /\ ~dirty[c]
  /\ jobs' = j2
  /\ schedule' = s2
  /\ message' = m2
  /\ dirty' = Touched(c, keys)
  /\ watching' = [watching EXCEPT ![c] = {}]

WatchedKeys(o) ==
  CASE o.name = "schedule_job" -> {JobsKey, ScheduleKey, MessageKey(o.msg)}
    [] o.name = "transaction" -> {CategoriesKey}
    [] o.name = "legacy_schedule_job" -> {ScheduleKey}
    [] OTHER -> {JobsKey, ScheduleKey}

FirstRead(o) ==
  CASE o.name \in {"schedule_job", "legacy_schedule_job", "edit_job"} -> "hexists"
    [] o.name = "remove_job" -> "zscore"
    [] o.name = "pop_job" -> "exec"
    [] o.name = "transaction" -> "func"
    [] OTHER -> "range"

(* cmd("WATCH").arg(keys): the first round trip of every attempt *)
Watch(c) ==
  /\ op[c].pc = "watch"
  /\ watching' = [watching EXCEPT ![c] = @ \cup WatchedKeys(op[c])]
  /\ Goto(c, FirstRead(op[c]))
  /\ Silent
  /\ UNCHANGED <<store, dirty, nextUid, nOps, hist, run, trial>>

(* mutant: after a refused EXEC the pipeline is sent again as it was *)
AbortAndResend(c) ==
  /\ op[c].pc = "exec"
  /\ dirty[c]
  /\ watching' = [watching EXCEPT ![c] = WatchedKeys(op[c])]
  /\ dirty' = [dirty EXCEPT ![c] = FALSE]
  /\ op' = [op EXCEPT ![c].pc = "exec"]
  /\ Silent
  /\ UNCHANGED <<store, nextUid, nOps, hist, run, trial>>

(* mutant: a refused EXEC is handed to the caller as an error *)
AbortWithError(c) ==
  /\ op[c].pc = "exec"
  /\ dirty[c]
  /\ watching' = [watching EXCEPT ![c] = {}]
  /\ dirty' = [dirty EXCEPT ![c] = FALSE]
  /\ Return(c, Err(op[c].name, "contention"))
  /\ UNCHANGED <<store, nextUid, nOps, hist, run, trial>>

(* EXEC answers Nil when a watched key was modified: the pipeline's query *)
(* yields None and async_transaction! (redis::transaction) loops          *)
Abort(c) ==
  /\ op[c].pc = "exec"
  /\ dirty[c]
  /\ watching' = [watching EXCEPT ![c] = {}]
  /\ dirty' = [dirty EXCEPT ![c] = FALSE]
  /\ op' = [op EXCEPT ![c].pc = "watch", ![c].ready = << >>, ![c].score = << >>]
  /\ Silent
  /\ UNCHANGED <<store, nextUid, nOps, hist, run, trial>>

(* cmd("UNWATCH") after the body yielded Some(response) *)
Unwatched(c) ==
  /\ watching' = [watching EXCEPT ![c] = {}]
  /\ dirty' = [dirty EXCEPT ![c] = FALSE]


(* --------------------------- schedule_job ----------------------------- *)
(* random_id(): six alphanumeric characters, any of them *)
random_id == Ids

schedule_job(c) ==
  /\ Start(c)
  /\ nextUid <= MaxJobs
  /\ \E topic \in Topics, timestamp \in Times, new_id \in random_id :
       LET task == [message |-> nextUid, topic |-> topic]
       IN  op' = [op EXCEPT ![c] =
                    [Idle EXCEPT !.name = "schedule_job", !.pc = "hexists",
                                 !.src = task, !.bytes = serialize(task),
                                 !.uid = nextUid, !.msg = task.message,
                                 !.id = new_id, !.time = <<timestamp>>]]
  /\ watching' = [watching EXCEPT ![c] =
                    @ \cup {JobsKey, ScheduleKey, MessageKey(nextUid)}]
  /\ Silent
  /\ nextUid' = nextUid + 1
  /\ nOps' = nOps + 1
  /\ UNCHANGED <<store, dirty, hist, run, trial>>

(* mutant: the candidate id is taken without the check *)
schedule_job_hexists_unchecked(c) ==
  /\ Can(c, "schedule_job", "hexists")
  /\ Goto(c, "exec")
  /\ Silent
  /\ UNCHANGED <<store, watching, dirty, nextUid, nOps, hist, run, trial>>

schedule_job_hexists(c) ==
  /\ Can(c, "schedule_job", "hexists")
  /\ IF ~HExists(jobs, op[c].id)
     THEN Goto(c, "exec")
     ELSE \E new_id \in random_id : op' = [op EXCEPT ![c].id = new_id]
  /\ Silent
  /\ UNCHANGED <<store, watching, dirty, nextUid, nOps, hist, run, trial>>

schedule_job_exec(c) ==
  /\ Can(c, "schedule_job", "exec")
  /\ LET o == op[c]
         job == [bytes |-> o.bytes, uid |-> o.uid, kind |-> "poll", src |-> o.src]
     IN  Commit(c, HSet(jobs, o.id, job),
                   ZAdd(schedule, o.id, o.time[1]),
                   [m \in DOMAIN message \cup {o.msg} |->
                      IF m = o.msg THEN o.id ELSE message[m]],
                   {JobsKey, MessageKey(o.msg)}
                   \cup IfTouched(ZScore(schedule, o.id) # o.time, ScheduleKey))
  /\ usedIds' = usedIds \cup {op[c].id}
  /\ Goto(c, "unwatch")
  /\ Silent
  /\ UNCHANGED <<nextUid, nOps, returned, removed, claimed, executed, run, trial>>

schedule_job_unwatch(c) ==
  /\ Can(c, "schedule_job", "unwatch")
  /\ Unwatched(c)
  /\ Return(c, Ok("schedule_job", <<op[c].id>>))
  /\ UNCHANGED <<store, nextUid, nOps, hist, run, trial>>

(* ----------------------------- edit_job ------------------------------- *)
edit_job(c) ==
  /\ Start(c)
  /\ \E task \in EditTasks, id \in Ids, time \in {<< >>} \cup {<<t>> : t \in Times} :
       op' = [op EXCEPT ![c] =
                [Idle EXCEPT !.name = "edit_job", !.pc = "hexists", !.src = task,
                             !.bytes = serialize(task), !.id = id, !.time = time]]
  /\ watching' = [watching EXCEPT ![c] = @ \cup {JobsKey, ScheduleKey}]
  /\ Silent
  /\ nOps' = nOps + 1
  /\ UNCHANGED <<store, dirty, nextUid, hist, run, trial>>

edit_job_hexists(c) ==
  /\ Can(c, "edit_job", "hexists")
  /\ IF HExists(jobs, op[c].id)
     THEN Goto(c, "exec") /\ Silent
     ELSE Return(c, Of(Err("edit_job", "No job found"), op[c].id))
  /\ UNCHANGED <<store, watching, dirty, nextUid, nOps, hist, run, trial>>

(* mutant: the new time is dropped *)
edit_job_exec_keeps_time(c) ==
  /\ Can(c, "edit_job", "exec")
  /\ LET o == op[c]
         old == IF HExists(jobs, o.id) THEN jobs[o.id] ELSE NoJob
         job == [bytes |-> o.bytes, uid |-> old.uid, kind |-> "poll", src |-> o.src]
     IN  Commit(c, HSet(jobs, o.id, job), schedule, message, {JobsKey})
  /\ Goto(c, "unwatch")
  /\ Silent
  /\ UNCHANGED <<nextUid, nOps, hist, run, trial>>

edit_job_exec(c) ==
  /\ Can(c, "edit_job", "exec")
  /\ LET o == op[c]
         old == IF HExists(jobs, o.id) THEN jobs[o.id] ELSE NoJob
         job == [bytes |-> o.bytes, uid |-> old.uid, kind |-> "poll", src |-> o.src]
     IN  IF o.time # << >>
         THEN Commit(c, HSet(jobs, o.id, job), ZAdd(schedule, o.id, o.time[1]),
                     message,
                     {JobsKey} \cup IfTouched(ZScore(schedule, o.id) # o.time,
                                              ScheduleKey))
         ELSE Commit(c, HSet(jobs, o.id, job), schedule, message, {JobsKey})
  /\ Goto(c, "unwatch")
  /\ Silent
  /\ UNCHANGED <<nextUid, nOps, hist, run, trial>>

edit_job_unwatch(c) ==
  /\ Can(c, "edit_job", "unwatch")
  /\ Unwatched(c)
  /\ Return(c, Of(Ok("edit_job", << >>), op[c].id))
  /\ UNCHANGED <<store, nextUid, nOps, hist, run, trial>>


(* ------------------------------ get_job ------------------------------- *)
(* mutant: a missing field reads as the empty payload (hget into Vec<u8>) *)
get_job_result_of_nil(hash, id) ==
  LET decoded == deserialize(IF HExists(hash, id) THEN hash[id].bytes ELSE << >>)
  IN  IF decoded.ok THEN Ok("get_job", <<decoded.task>>)
      ELSE Err("get_job", "codec")

get_job_result(hash, id) ==
  IF ~HExists(hash, id) THEN Err("get_job", "No job found")
  ELSE LET decoded == deserialize(hash[id].bytes)
       IN  IF decoded.ok THEN Ok("get_job", <<decoded.task>>)
           ELSE Err("get_job", "codec")

get_job(c) ==
  /\ Start(c)
  /\ \E id \in Ids :
       /\ Returned(c, Of(get_job_result(jobs, id), id))
       /\ op' = [op EXCEPT ![c] = Idle]
  /\ nOps' = nOps + 1
  /\ UNCHANGED <<store, watching, dirty, nextUid, hist, run, trial>>

(* --------------- get_and_clear_ready_jobs, clear_ready_jobs ----------- *)
(* the reply to hget(jobs_key, fields): HGET for one field, HMGET for     *)
(* several; a slot is <<value>>, or << >> for Nil                         *)
hget_reply(hash, fields) ==
  [k \in 1..Len(fields) |->
     IF HExists(hash, fields[k]) THEN <<hash[fields[k]]>> ELSE << >>]

(* MyVec::from_redis_value: Data is one element, Nil none; of a Bulk      *)
(* every item becomes a Vec<u8>, a Nil item the empty one                 *)
MyVec(reply) ==
  IF Len(reply) = 1
  THEN (IF Len(reply[1]) = 0 THEN << >> ELSE <<reply[1][1]>>)
  ELSE [k \in 1..Len(reply) |-> IF Len(reply[k]) = 0 THEN NoJob ELSE reply[k][1]]

(* the loop over jobs_as_string: the first failing deserialize returns Err *)
decode_all(name, fetched) ==
  IF \E k \in 1..Len(fetched) : ~deserialize(fetched[k].bytes).ok
  THEN Err(name, "codec")
  ELSE Ok(name, [k \in 1..Len(fetched) |-> deserialize(fetched[k].bytes).task])

(* the dispatch loop of main.rs, one per process: each tick it claims     *)
(* with get_and_clear_ready_jobs(now), hands the Result to a task spawned *)
(* for it, and awaits the next tick.  The spawned task calls the jobs of  *)
(* an Ok result one after the other, or prints the error.                 *)
(* mutant: the loop unwraps the Result and ends on an error *)
spawn_unwrapped(c, result, fetched) ==
  /\ spawned' = [spawned EXCEPT ![c] = @ \cup
                   IF result.status = "ok" /\ result.val # << >>
                   THEN {[k \in 1..Len(result.val) |->
                            [uid |-> fetched[k].uid, poll |-> result.val[k]]]}
                   ELSE {}]
  /\ dispatch' = [dispatch EXCEPT ![c].running = result.status = "ok"]

spawn(c, result, fetched) ==
  /\ spawned' = [spawned EXCEPT ![c] = @ \cup
                   IF result.status = "ok" /\ result.val # << >>
                   THEN {[k \in 1..Len(result.val) |->
                            [uid |-> fetched[k].uid, poll |-> result.val[k]]]}
                   ELSE {}]
  /\ dispatch' = [dispatch EXCEPT ![c].failures =
                     IF result.status = "err" THEN @ + 1 ELSE @]

(* the answers of the platform to the calls of the dispatch loop: the     *)
(* poll message is gone, or it has one option and no reaction, or it has  *)
(* one option with a vote                                                 *)
TickWorlds ==
  {[fetch |-> m, user |-> TRUE, send |-> TRUE] :
     m \in {NoMessage,
            [found |-> TRUE, embeds |-> <<<<<<1>>>>>>, reactions |-> << >>],
            [found |-> TRUE, embeds |-> <<<<<<1>>>>>>,
             reactions |-> <<[emoji |-> 1, count |-> MaxCount]>>]}}

(* mutant: a job whose call panicked stays with its task *)
call_again(c) ==
  /\ \E t \in spawned[c] :
     \E w \in TickWorlds :
       LET job == Head(t)
           left == IF Poll_call(job.poll, w).panicked THEN {t}
                   ELSE IF Tail(t) = << >> THEN {} ELSE {Tail(t)}
       IN  /\ spawned' = [spawned EXCEPT ![c] = (@ \ {t}) \cup left]
           /\ executed' = [executed EXCEPT ![job.uid] = @ + 1]
  /\ Silent
  /\ UNCHANGED <<store, watching, dirty, op, nextUid, nOps, usedIds, returned,
                 removed, claimed, dispatch, trial>>

(* job.call(&arc_clone).await in a spawned task: the next job of the task *)
(* is called; a panic in the call ends the task                           *)
call(c) ==
  /\ \E t \in spawned[c] :
     \E w \in TickWorlds :
       LET job == Head(t)
           left == IF Poll_call(job.poll, w).panicked \/ Tail(t) = << >>
                   THEN {} ELSE {Tail(t)}
       IN  /\ spawned' = [spawned EXCEPT ![c] = (@ \ {t}) \cup left]
           /\ executed' = [executed EXCEPT ![job.uid] = @ + 1]
  /\ Silent
  /\ UNCHANGED <<store, watching, dirty, op, nextUid, nOps, usedIds, returned,
                 removed, claimed, dispatch, trial>>

(* mutant: the loop awaits the task of a tick before the next tick *)
get_and_clear_ready_jobs_after_tasks(c) ==
  /\ Start(c)
  /\ dispatch[c].running
  /\ spawned[c] = {}
  /\ \E timestamp \in Times :
       op' = [op EXCEPT ![c] =
                [Idle EXCEPT !.name = "get_and_clear_ready_jobs", !.pc = "range",
                             !.ts = timestamp]]
  /\ watching' = [watching EXCEPT ![c] = @ \cup {JobsKey, ScheduleKey}]
  /\ Silent
  /\ nOps' = nOps + 1
  /\ UNCHANGED <<store, dirty, nextUid, hist, run, trial>>

get_and_clear_ready_jobs(c) ==
  /\ Start(c)
  /\ dispatch[c].running
  /\ \E timestamp \in Times :
       op' = [op EXCEPT ![c] =
                [Idle EXCEPT !.name = "get_and_clear_ready_jobs", !.pc = "range",
                             !.ts = timestamp]]
  /\ watching' = [watching EXCEPT ![c] = @ \cup {JobsKey, ScheduleKey}]
  /\ Silent
  /\ nOps' = nOps + 1
  /\ UNCHANGED <<store, dirty, nextUid, hist, run, trial>>

get_and_clear_ready_jobs_range(c) ==
  /\ Can(c, "get_and_clear_ready_jobs", "range")
  /\ LET ready_jobs == ZRangeByScore(schedule, op[c].ts)
     IN  IF ready_jobs = << >>
         THEN /\ Return(c, Of(Ok("get_and_clear_ready_jobs", << >>), op[c].ts))
              /\ spawn(c, Ok("get_and_clear_ready_jobs", << >>), << >>)
         ELSE /\ op' = [op EXCEPT ![c].ready = ready_jobs, ![c].pc = "exec"]
              /\ Silent
              /\ UNCHANGED run
  /\ UNCHANGED <<store, watching, dirty, nextUid, nOps, hist, trial>>

(* mutant: the pipeline of get_ready_jobs, which deletes nothing *)
get_and_clear_ready_jobs_exec_peeks(c) ==
  /\ Can(c, "get_and_clear_ready_jobs", "exec")
  /\ Commit(c, jobs, schedule, message, {})
  /\ op' = [op EXCEPT ![c].fetched = MyVec(hget_reply(jobs, op[c].ready)),
                      ![c].pc = "unwatch"]
  /\ claimed' = claimed \cup {jobs[i].uid : i \in SeqToSet(op[c].ready) \cap DOMAIN jobs}
  /\ Silent
  /\ UNCHANGED <<nextUid, nOps, usedIds, returned, removed, executed, run, trial>>

(* mutant: the claimed jobs are handed to their task inside the body of   *)
(* the transaction, with the lock held                                    *)
get_and_clear_ready_jobs_exec_spawns(c) ==
  /\ Can(c, "get_and_clear_ready_jobs", "exec")
  /\ LET o == op[c]
         j2 == HDel(jobs, SeqToSet(o.ready))
         s2 == ZRemRangeByScore(schedule, o.ts)
         fetched == MyVec(hget_reply(jobs, o.ready))
     IN  /\ Commit(c, j2, s2, message,
                   IfTouched(j2 # jobs, JobsKey) \cup IfTouched(s2 # schedule, ScheduleKey))
         /\ op' = [op EXCEPT ![c].fetched = fetched, ![c].pc = "unwatch"]
         /\ spawn(c, decode_all("get_and_clear_ready_jobs", fetched), fetched)
  /\ claimed' = claimed \cup {jobs[i].uid : i \in SeqToSet(op[c].ready) \cap DOMAIN jobs}
  /\ Silent
  /\ UNCHANGED <<nextUid, nOps, usedIds, returned, removed, executed, trial>>

get_and_clear_ready_jobs_exec(c) ==
  /\ Can(c, "get_and_clear_ready_jobs", "exec")
  /\ LET o == op[c]
         j2 == HDel(jobs, SeqToSet(o.ready))
         s2 == ZRemRangeByScore(schedule, o.ts)
     IN  /\ Commit(c, j2, s2, message,
                   IfTouched(j2 # jobs, JobsKey) \cup IfTouched(s2 # schedule, ScheduleKey))
         /\ op' = [op EXCEPT ![c].fetched = MyVec(hget_reply(jobs, o.ready)),
                             ![c].pc = "unwatch"]
  /\ claimed' = claimed \cup {jobs[i].uid : i \in SeqToSet(op[c].ready) \cap DOMAIN jobs}
  /\ Silent
  /\ UNCHANGED <<nextUid, nOps, usedIds, returned, removed, executed, run, trial>>

get_and_clear_ready_jobs_unwatch(c) ==
  /\ Can(c, "get_and_clear_ready_jobs", "unwatch")
  /\ Unwatched(c)
  /\ LET result == Of(decode_all("get_and_clear_ready_jobs", op[c].fetched), op[c].ts)
         uids == {op[c].fetched[k].uid : k \in 1..Len(op[c].fetched)}
     IN  /\ Return(c, result)
         /\ spawn(c, result, op[c].fetched)
         /\ returned' = [u \in Uids |->
                           IF result.status = "ok" /\ u \in uids
                           THEN returned[u] + 1 ELSE returned[u]]
  /\ UNCHANGED <<store, nextUid, nOps, usedIds, removed, claimed, executed, trial>>

(* --------------------------- get_ready_jobs --------------------------- *)
get_ready_jobs(c) ==
  /\ Start(c)
  /\ \E timestamp \in Times :
       op' = [op EXCEPT ![c] =
                [Idle EXCEPT !.name = "get_ready_jobs", !.pc = "range",
                             !.ts = timestamp]]
  /\ watching' = [watching EXCEPT ![c] = @ \cup {JobsKey, ScheduleKey}]
  /\ Silent
  /\ nOps' = nOps + 1
  /\ UNCHANGED <<store, dirty, nextUid, hist, run, trial>>

get_ready_jobs_range(c) ==
  /\ Can(c, "get_ready_jobs", "range")
  /\ LET ready_jobs == ZRangeByScore(schedule, op[c].ts)
     IN  IF ready_jobs = << >>
         THEN Return(c, Of(Ok("get_ready_jobs", << >>), op[c].ts))
         ELSE op' = [op EXCEPT ![c].ready = ready_jobs, ![c].pc = "exec"]
              /\ Silent
  /\ UNCHANGED <<store, watching, dirty, nextUid, nOps, hist, run, trial>>

(* mutant: the pipeline of get_and_clear_ready_jobs *)
get_ready_jobs_exec_clears(c) ==
  /\ Can(c, "get_ready_jobs", "exec")
  /\ Commit(c, HDel(jobs, SeqToSet(op[c].ready)),
               ZRemRangeByScore(schedule, op[c].ts), message,
               {JobsKey, ScheduleKey})
  /\ op' = [op EXCEPT ![c].fetched = MyVec(hget_reply(jobs, op[c].ready)),
                      ![c].pc = "unwatch"]
  /\ Silent
  /\ UNCHANGED <<nextUid, nOps, hist, run, trial>>

(* pipe().atomic().hget(jobs_key, ready_jobs): the EXEC writes nothing *)
get_ready_jobs_exec(c) ==
  /\ Can(c, "get_ready_jobs", "exec")
  /\ Commit(c, jobs, schedule, message, {})
  /\ op' = [op EXCEPT ![c].fetched = MyVec(hget_reply(jobs, op[c].ready)),
                      ![c].pc = "unwatch"]
  /\ Silent
  /\ UNCHANGED <<nextUid, nOps, hist, run, trial>>

get_ready_jobs_unwatch(c) ==
  /\ Can(c, "get_ready_jobs", "unwatch")
  /\ Unwatched(c)
  /\ Return(c, Of(decode_all("get_ready_jobs", op[c].fetched), op[c].ts))
  /\ UNCHANGED <<store, nextUid, nOps, hist, run, trial>>

clear_ready_jobs(c) ==
  /\ Start(c)
  /\ \E timestamp \in Times :
       op' = [op EXCEPT ![c] =
                [Idle EXCEPT !.name = "clear_ready_jobs", !.pc = "range",
                             !.ts = timestamp]]
  /\ watching' = [watching EXCEPT ![c] = @ \cup {JobsKey, ScheduleKey}]
  /\ Silent
  /\ nOps' = nOps + 1
  /\ UNCHANGED <<store, dirty, nextUid, hist, run, trial>>

clear_ready_jobs_range(c) ==
  /\ Can(c, "clear_ready_jobs", "range")
  /\ LET ready_jobs == ZRangeByScore(schedule, op[c].ts)
     IN  IF ready_jobs = << >>
         THEN Return(c, Ok("clear_ready_jobs", << >>))
         ELSE op' = [op EXCEPT ![c].ready = ready_jobs, ![c].pc = "exec"]
              /\ Silent
  /\ UNCHANGED <<store, watching, dirty, nextUid, nOps, hist, run, trial>>

clear_ready_jobs_exec(c) ==
  /\ Can(c, "clear_ready_jobs", "exec")
  /\ LET o == op[c]
         j2 == HDel(jobs, SeqToSet(o.ready))
         s2 == ZRemRangeByScore(schedule, o.ts)
     IN  Commit(c, j2, s2, message,
                IfTouched(j2 # jobs, JobsKey) \cup IfTouched(s2 # schedule, ScheduleKey))
  /\ Goto(c, "unwatch")
  /\ Silent
  /\ UNCHANGED <<nextUid, nOps, hist, run, trial>>

clear_ready_jobs_unwatch(c) ==
  /\ Can(c, "clear_ready_jobs", "unwatch")
  /\ Unwatched(c)
  /\ Return(c, Ok("clear_ready_jobs", << >>))
  /\ UNCHANGED <<store, nextUid, nOps, hist, run, trial>>

(* ----------------------------- clear_jobs ----------------------------- *)
(* pipe().atomic().del([jobs, schedule]): MULTI/EXEC without a WATCH of   *)
(* its own; a watch left on the connection by an earlier early return     *)
(* still makes EXEC answer Nil, which the () result type takes as success *)
clear_jobs(c) ==
  /\ Start(c)
  /\ IF dirty[c]
     THEN UNCHANGED store /\ dirty' = [dirty EXCEPT ![c] = FALSE]
     ELSE /\ jobs' = << >>
          /\ schedule' = << >>
          /\ message' = message
          /\ dirty' = Touched(c, IfTouched(jobs # << >>, JobsKey)
                                 \cup IfTouched(schedule # << >>, ScheduleKey))
  /\ watching' = [watching EXCEPT ![c] = {}]
  /\ op' = [op EXCEPT ![c] = Idle]
  /\ Returned(c, Ok("clear_jobs", << >>))
  /\ nOps' = nOps + 1
  /\ UNCHANGED <<nextUid, hist, run, trial>>


(* ---------------------------- remove_job ------------------------------ *)
remove_job(c) ==
  /\ Start(c)
  /\ \E message_id \in Uids :
       IF message_id \in DOMAIN message
       THEN /\ op' = [op EXCEPT ![c] =
                        [Idle EXCEPT !.name = "remove_job", !.pc = "watch",
                                     !.msg = message_id, !.id = message[message_id]]]
            /\ Silent
       ELSE /\ op' = [op EXCEPT ![c] = Idle]
            /\ Returned(c, Of(Ok("remove_job", << >>), message_id))
  /\ nOps' = nOps + 1
  /\ UNCHANGED <<store, watching, dirty, nextUid, hist, run, trial>>

(* None => pipe().atomic().query_async(con): an empty pipeline sends      *)
(* nothing and yields Some(()), so the next round trip is the UNWATCH     *)
(* mutant: a job without a score is an error *)
remove_job_zscore_not_found(c) ==
  /\ Can(c, "remove_job", "zscore")
  /\ LET job_score == ZScore(schedule, op[c].id)
     IN  IF job_score = << >>
         THEN Return(c, Of(Err("remove_job", "No job found"), op[c].msg))
         ELSE op' = [op EXCEPT ![c].score = job_score, ![c].pc = "exec"] /\ Silent
  /\ UNCHANGED <<store, watching, dirty, nextUid, nOps, hist, run, trial>>

remove_job_zscore(c) ==
  /\ Can(c, "remove_job", "zscore")
  /\ LET job_score == ZScore(schedule, op[c].id)
     IN  op' = [op EXCEPT ![c].score = job_score,
                          ![c].pc = IF job_score = << >> THEN "unwatch" ELSE "exec"]
  /\ Silent
  /\ UNCHANGED <<store, watching, dirty, nextUid, nOps, hist, run, trial>>

(* mutant: the message key is left behind *)
remove_job_exec_keeps_key(c) ==
  /\ Can(c, "remove_job", "exec")
  /\ LET o == op[c]
     IN  Commit(c, HDel(jobs, {o.id}), ZRem(schedule, {o.id}), message,
                IfTouched(HExists(jobs, o.id), JobsKey)
                \cup IfTouched(o.id \in DOMAIN schedule, ScheduleKey))
  /\ removed' = removed \cup {jobs[i].uid : i \in {op[c].id} \cap DOMAIN jobs}
  /\ Goto(c, "unwatch")
  /\ Silent
  /\ UNCHANGED <<nextUid, nOps, usedIds, returned, claimed, executed, run, trial>>

remove_job_exec(c) ==
  /\ Can(c, "remove_job", "exec")
  /\ LET o == op[c]
     IN  Commit(c, HDel(jobs, {o.id}), ZRem(schedule, {o.id}),
                [m \in DOMAIN message \ {o.msg} |-> message[m]],
                IfTouched(o.msg \in DOMAIN message, MessageKey(o.msg))
                \cup IfTouched(HExists(jobs, o.id), JobsKey)
                \cup IfTouched(o.id \in DOMAIN schedule, ScheduleKey))
  /\ removed' = removed \cup {jobs[i].uid : i \in {op[c].id} \cap DOMAIN jobs}
  /\ Goto(c, "unwatch")
  /\ Silent
  /\ UNCHANGED <<nextUid, nOps, usedIds, returned, claimed, executed, run, trial>>

remove_job_unwatch(c) ==
  /\ Can(c, "remove_job", "unwatch")
  /\ Unwatched(c)
  /\ Return(c, Of(Ok("remove_job", << >>), op[c].msg))
  /\ UNCHANGED <<store, nextUid, nOps, hist, run, trial>>

(* ------------------------------ pop_job ------------------------------- *)
(* The close button of a poll (handle_poll_interaction) takes the job by  *)
(* its id with pop_job and calls the poll it got.  pop_job is not part of *)
(* the scheduler at hand; it is taken to be the removal of the spec, one  *)
(* transaction that fetches and deletes the job, returning what it        *)
(* fetched.                                                               *)
pop_job(c) ==
  /\ Start(c)
  /\ \E id \in Ids :
       op' = [op EXCEPT ![c] = [Idle EXCEPT !.name = "pop_job", !.pc = "exec",
                                           !.id = id]]
  /\ watching' = [watching EXCEPT ![c] = @ \cup {JobsKey, ScheduleKey}]
  /\ Silent
  /\ nOps' = nOps + 1
  /\ UNCHANGED <<store, dirty, nextUid, hist, run, trial>>

pop_job_exec(c) ==
  /\ Can(c, "pop_job", "exec")
  /\ LET o == op[c]
     IN  /\ Commit(c, HDel(jobs, {o.id}), ZRem(schedule, {o.id}), message,
                   IfTouched(HExists(jobs, o.id), JobsKey)
                   \cup IfTouched(o.id \in DOMAIN schedule, ScheduleKey))
         /\ op' = [op EXCEPT ![c].fetched = MyVec(hget_reply(jobs, <<o.id>>)),
                             ![c].pc = "unwatch"]
  /\ Silent
  /\ UNCHANGED <<nextUid, nOps, hist, run, trial>>

(* Ok(Some(real_poll)) => real_poll.call(&ctx.http).await in the handler *)
pop_job_unwatch(c) ==
  /\ Can(c, "pop_job", "unwatch")
  /\ Unwatched(c)
  /\ LET result == Of(decode_all("pop_job", op[c].fetched), op[c].id)
     IN  /\ Return(c, result)
         /\ spawned' = [spawned EXCEPT ![c] = @ \cup
                          IF result.status = "ok" /\ result.val # << >>
                          THEN {<<[uid |-> op[c].fetched[1].uid,
                                   poll |-> result.val[1]]>>}
                          ELSE {}]
  /\ UNCHANGED <<store, nextUid, nOps, hist, dispatch, trial>>

(* ------------------- src/scheduler.rs (first version) ----------------- *)
(* redis::transaction(con, &[schedule_key], ...): only the sorted set is  *)
(* watched; the id is a fresh Uuid                                        *)
legacy_schedule_job(c) ==
  /\ Start(c)
  /\ nextUid <= MaxJobs
  /\ \E event \in Events, timestamp \in Times, new_id \in random_id :
       op' = [op EXCEPT ![c] =
                [Idle EXCEPT !.name = "legacy_schedule_job", !.pc = "hexists",
                             !.src = event, !.bytes = legacy_serialize(event),
                             !.uid = nextUid,
                             !.id = new_id, !.time = <<timestamp>>]]
  /\ watching' = [watching EXCEPT ![c] = @ \cup {ScheduleKey}]
  /\ Silent
  /\ nextUid' = nextUid + 1
  /\ nOps' = nOps + 1
  /\ UNCHANGED <<store, dirty, hist, run, trial>>

legacy_schedule_job_hexists(c) ==
  /\ Can(c, "legacy_schedule_job", "hexists")
  /\ IF ~HExists(jobs, op[c].id)
     THEN Goto(c, "exec")
     ELSE \E new_id \in random_id : op' = [op EXCEPT ![c].id = new_id]
  /\ Silent
  /\ UNCHANGED <<store, watching, dirty, nextUid, nOps, hist, run, trial>>

legacy_schedule_job_exec(c) ==
  /\ Can(c, "legacy_schedule_job", "exec")
  /\ LET o == op[c]
         job == [bytes |-> o.bytes, uid |-> o.uid, kind |-> "legacy", src |-> o.src]
     IN  Commit(c, HSet(jobs, o.id, job), ZAdd(schedule, o.id, o.time[1]), message,
                {JobsKey} \cup IfTouched(ZScore(schedule, o.id) # o.time, ScheduleKey))
  /\ Goto(c, "unwatch")
  /\ Silent
  /\ UNCHANGED <<nextUid, nOps, hist, run, trial>>

legacy_schedule_job_unwatch(c) ==
  /\ Can(c, "legacy_schedule_job", "unwatch")
  /\ Unwatched(c)
  /\ Return(c, Ok("legacy_schedule_job", <<op[c].id>>))
  /\ UNCHANGED <<store, nextUid, nOps, hist, run, trial>>

(* hget into Vec<u8>: a missing field reads as the empty vector *)
legacy_get_job_result(hash, id) ==
  LET bytes == IF HExists(hash, id) THEN hash[id].bytes ELSE << >>
      decoded == legacy_deserialize(bytes)
  IN  IF decoded.ok THEN Ok("legacy_get_job", <<decoded.event>>)
      ELSE Err("legacy_get_job", "codec")

legacy_get_job(c) ==
  /\ Start(c)
  /\ \E id \in Ids : Returned(c, Of(legacy_get_job_result(jobs, id), id))
  /\ op' = [op EXCEPT ![c] = Idle]
  /\ nOps' = nOps + 1
  /\ UNCHANGED <<store, watching, dirty, nextUid, hist, run, trial>>

(* ---------------------------- environment ----------------------------- *)
(* the TTL that set_ex gave a message key runs out *)
Expire(m) ==
  /\ m \in DOMAIN message
  /\ message' = [k \in DOMAIN message \ {m} |-> message[k]]
  /\ dirty' = [d \in Conns |-> dirty[d] \/ MessageKey(m) \in watching[d]]
  /\ Silent
  /\ UNCHANGED <<jobs, schedule, watching, op, nextUid, nOps, hist, run, trial>>

(* a round trip fails (query_async(..).await?): the call returns the      *)
(* error at once, without UNWATCH                                         *)
TransportError(c) ==
  /\ op[c].pc # "idle"
  /\ Return(c, Of(Err(op[c].name, "transport"), 0))
  /\ IF op[c].name = "get_and_clear_ready_jobs"
     THEN spawn(c, Err(op[c].name, "transport"), << >>)
     ELSE UNCHANGED run
  /\ UNCHANGED <<store, watching, dirty, nextUid, nOps, hist, trial>>

(* the process dies between two round trips or with spawned tasks still   *)
(* running, and is started again: its connection is closed, and with it   *)
(* the connection's watches; its tasks are gone                           *)
Crash(c) ==
  /\ op[c].pc # "idle" \/ spawned[c] # {}
  /\ op' = [op EXCEPT ![c] = Idle]
  /\ Silent
  /\ watching' = [watching EXCEPT ![c] = {}]
  /\ dirty' = [dirty EXCEPT ![c] = FALSE]
  /\ spawned' = [spawned EXCEPT ![c] = {}]
  /\ UNCHANGED <<store, nextUid, nOps, hist, dispatch, trial>>

Next ==
  \/ \E c \in Conns :
       \/ schedule_job(c) \/ schedule_job_hexists(c)
       \/ schedule_job_exec(c) \/ schedule_job_unwatch(c)
       \/ edit_job(c) \/ edit_job_hexists(c)
       \/ edit_job_exec(c) \/ edit_job_unwatch(c)
       \/ get_job(c)
       \/ get_and_clear_ready_jobs(c) \/ get_and_clear_ready_jobs_range(c)
       \/ get_and_clear_ready_jobs_exec(c) \/ get_and_clear_ready_jobs_unwatch(c)
       \/ get_ready_jobs(c) \/ get_ready_jobs_range(c)
       \/ get_ready_jobs_exec(c) \/ get_ready_jobs_unwatch(c)
       \/ clear_ready_jobs(c) \/ clear_ready_jobs_range(c)
       \/ clear_ready_jobs_exec(c) \/ clear_ready_jobs_unwatch(c)
       \/ clear_jobs(c)
       \/ remove_job(c) \/ remove_job_zscore(c)
       \/ remove_job_exec(c) \/ remove_job_unwatch(c)
       \/ legacy_schedule_job(c) \/ legacy_schedule_job_hexists(c)
       \/ legacy_schedule_job_exec(c) \/ legacy_schedule_job_unwatch(c)
       \/ legacy_get_job(c)
       \/ pop_job(c) \/ pop_job_exec(c) \/ pop_job_unwatch(c)
       \/ call(c)
       \/ Watch(c) \/ Abort(c)
       \/ TransportError(c) \/ Crash(c)
  \/ \E m \in Uids : Expire(m)

Spec == Init /\ [][Next]_vars

(* ------------------- the retrying calls, scheduled fairly ------------- *)
(* the calls built on async_transaction!, on a store that answers: every  *)
(* round trip of a call in flight is eventually answered, and random_id   *)
(* does not draw taken ids for ever                                       *)
Proceed(c) ==
  \/ schedule_job_hexists(c) \/ schedule_job_exec(c) \/ schedule_job_unwatch(c)
  \/ edit_job_hexists(c) \/ edit_job_exec(c) \/ edit_job_unwatch(c)
  \/ remove_job_zscore(c) \/ remove_job_exec(c) \/ remove_job_unwatch(c)
  \/ get_and_clear_ready_jobs_range(c) \/ get_and_clear_ready_jobs_exec(c)
  \/ get_and_clear_ready_jobs_unwatch(c)
  \/ Watch(c) \/ Abort(c)

DrawsFreeId(c) == schedule_job_hexists(c) /\ ~HExists(jobs, op'[c].id)

LiveNext ==
  \E c \in Conns :
    \/ schedule_job(c) \/ edit_job(c) \/ remove_job(c)
    \/ get_and_clear_ready_jobs(c)
    \/ Proceed(c)

LiveSpec ==
  /\ Init
  /\ [][LiveNext]_vars
  /\ \A c \in Conns : WF_vars(Proceed(c)) /\ SF_vars(DrawsFreeId(c))

(* -------------------- util/redis.rs: transaction ---------------------- *)
(* transaction(con, keys, func) as the category command of stats.rs calls *)
(* it: func reads the categories hash, fails when one of the emojis is    *)
(* used by another category, and else queues HSET key category emojis     *)
Categories == {1, 2}

EmojiLists == {{1}, {2}, {1, 2}}

transaction(c) ==
  /\ Start(c)
  /\ \E category \in Categories, emojis \in EmojiLists :
       op' = [op EXCEPT ![c] =
                [Idle EXCEPT !.name = "transaction", !.pc = "func",
                             !.id = category, !.src = emojis]]
  /\ watching' = [watching EXCEPT ![c] = @ \cup {CategoriesKey}]
  /\ Silent
  /\ nOps' = nOps + 1
  /\ UNCHANGED <<store, dirty, nextUid, hist, run, trial>>

(* conn.hgetall(&key) and the loop over the existing categories *)
transaction_func(c) ==
  /\ Can(c, "transaction", "func")
  /\ IF \E existing_category \in DOMAIN categories \ {op[c].id} :
          categories[existing_category] \cap op[c].src # {}
     THEN Return(c, Of(Err("transaction", "Emoji is already used"), op[c].id))
     ELSE Goto(c, "exec") /\ Silent
  /\ UNCHANGED <<store, watching, dirty, nextUid, nOps, hist, run, trial>>

(* pipe.hset(&key, &category, ..).query(conn): MULTI, HSET, EXEC *)
transaction_exec(c) ==
  /\ Can(c, "transaction", "exec")
  /\ ~dirty[c]
  /\ categories' = HSet(categories, op[c].id, op[c].src)
  /\ dirty' = Touched(c, {CategoriesKey})
  /\ watching' = [watching EXCEPT ![c] = {}]
  /\ Goto(c, "unwatch")
  /\ Silent
  /\ UNCHANGED <<store, nextUid, nOps, hist, run, callee, world, outcome,
                 commands, adding>>

(* Some(response): the command named UNWWATCH is sent, and its answer     *)
(* decides what transaction returns                                       *)
transaction_unwatch(c) ==
  /\ Can(c, "transaction", "unwatch")
  /\ IF query_async("UNWWATCH")
     THEN /\ Unwatched(c)
          /\ Return(c, Of(Ok("transaction", << >>), op[c].id))
     ELSE /\ Return(c, Of(Err("transaction", "unknown command"), op[c].id))
          /\ UNCHANGED <<watching, dirty>>
  /\ UNCHANGED <<store, nextUid, nOps, hist, run, trial>>

TxNext ==
  \E c \in Conns :
    \/ transaction(c) \/ transaction_func(c)
    \/ transaction_exec(c) \/ transaction_unwatch(c)
    \/ Watch(c) \/ Abort(c)

TxSpec == Init /\ [][TxNext]_vars

(* ---------------- commands/events.rs: the event commands -------------- *)
(* signup, leave and reschedule of one process on one stored event; each  *)
(* call of the scheduler is made with the Mutex held                      *)
Handles(h, cmd) == handler[h].cmd = cmd /\ handler[h].pc = "got"

(* signup_event: lock.lock().await and get_job *)
signup_event(h) ==
  /\ handler[h].pc = "idle"
  /\ lock = "free"
  /\ \E user \in Users :
       handler' = [handler EXCEPT ![h] =
                     [NoHandler EXCEPT !.cmd = "signup", !.pc = "got",
                                       !.user = user, !.event = event_job]]
  /\ lock' = h
  /\ UNCHANGED <<vars_of_scheduler, callee, world, outcome, categories, adding,
                 event_job, signups>>

(* signup_event: members.push and edit_job, or nothing for a member; the  *)
(* guard is dropped on return                                             *)
signup_event_edit(h) ==
  /\ Handles(h, "signup")
  /\ LET existing_event == handler[h].event
         user == handler[h].user
     IN  IF user \notin existing_event.members
         THEN /\ event_job' = [existing_event EXCEPT !.members = @ \cup {user}]
              /\ signups' = signups \cup {user}
         ELSE UNCHANGED <<event_job, signups>>
  /\ handler' = [handler EXCEPT ![h] = NoHandler]
  /\ lock' = "free"
  /\ UNCHANGED <<vars_of_scheduler, callee, world, outcome, categories, adding>>

(* leave_event: lock.lock().await and get_job *)
leave_event(h) ==
  /\ handler[h].pc = "idle"
  /\ lock = "free"
  /\ \E user \in Users :
       handler' = [handler EXCEPT ![h] =
                     [NoHandler EXCEPT !.cmd = "leave", !.pc = "got",
                                       !.user = user, !.event = event_job]]
  /\ lock' = h
  /\ UNCHANGED <<vars_of_scheduler, callee, world, outcome, categories, adding,
                 event_job, signups>>

(* leave_event: members.retain and edit_job, or nothing for a non-member *)
leave_event_edit(h) ==
  /\ Handles(h, "leave")
  /\ LET existing_event == handler[h].event
         user == handler[h].user
     IN  IF user \in existing_event.members
         THEN /\ event_job' = [existing_event EXCEPT !.members = @ \ {user}]
              /\ signups' = signups \ {user}
         ELSE UNCHANGED <<event_job, signups>>
  /\ handler' = [handler EXCEPT ![h] = NoHandler]
  /\ lock' = "free"
  /\ UNCHANGED <<vars_of_scheduler, callee, world, outcome, categories, adding>>

(* reschedule and interaction_reschedule, by the event's author: get_job  *)
(* inside a block of its own, at whose end the guard is dropped           *)
reschedule(h) ==
  /\ handler[h].pc = "idle"
  /\ lock = "free"
  /\ \E new_time \in Times :
       handler' = [handler EXCEPT ![h] =
                     [NoHandler EXCEPT !.cmd = "reschedule", !.pc = "got",
                                       !.time = new_time, !.event = event_job]]
  /\ UNCHANGED <<vars_of_scheduler, callee, world, outcome, categories, adding,
                 event_job, lock, signups>>

(* reschedule: event.time = new_time, then edit_job under a second lock *)
reschedule_edit(h) ==
  /\ Handles(h, "reschedule")
  /\ lock = "free"
  /\ event_job' = [handler[h].event EXCEPT !.time = handler[h].time]
  /\ handler' = [handler EXCEPT ![h] = NoHandler]
  /\ UNCHANGED <<vars_of_scheduler, callee, world, outcome, categories, adding,
                 lock, signups>>

EventNext ==
  \E h \in Handlers :
    \/ signup_event(h) \/ signup_event_edit(h)
    \/ leave_event(h) \/ leave_event_edit(h)
    \/ reschedule(h) \/ reschedule_edit(h)

EventSpec == Init /\ [][EventNext]_vars

(* ------------------- commands/poll.rs: do_option_add ------------------ *)
(* the poll message lists the options 1..existing_len; FORMAT_STRINGS and *)
(* EMOJI_ORDER are indexed from 0, as in the code, and an index past the  *)
(* end is a panic                                                         *)
MAX_OPTIONS == 20

FORMAT_STRINGS_len == 20

EMOJI_ORDER_len == 20

MaxAdded == 2

NewOptions == {1, MAX_OPTIONS + 1, MAX_OPTIONS + 2}

OptionLists ==
  UNION {[1..len -> NewOptions] : len \in 1..MaxAdded}

(* the loop over &options: an option not yet in all_options is added      *)
(* under the label FORMAT_STRINGS[count + offset]                         *)
RECURSIVE add_options(_, _, _, _)
add_options(options, all_options, labels, offset) ==
  IF options = << >>
  THEN [all_options |-> all_options, labels |-> labels, panicked |-> FALSE]
  ELSE LET option == Head(options)
           count == Len(labels)
       IN  IF option \in all_options
           THEN add_options(Tail(options), all_options, labels, offset)
           ELSE IF count + offset >= FORMAT_STRINGS_len
           THEN [all_options |-> all_options, labels |-> labels, panicked |-> TRUE]
           ELSE add_options(Tail(options), all_options \cup {option},
                            Append(labels, count + offset), offset)

do_option_add(existing_len, options) ==
  LET offset == 1 + existing_len
      looped == add_options(options, 1..existing_len, << >>, offset)
      count == Len(looped.labels)
      ending_len == existing_len + count
      result == [status |-> "ok", edited |-> FALSE, labels |-> << >>,
                 reactions |-> << >>]
  IN  IF looped.panicked THEN [result EXCEPT !.status = "panic"]
      ELSE IF Cardinality(looped.all_options) > MAX_OPTIONS
      THEN [result EXCEPT !.status = "err"]
      ELSE IF count = 0 THEN result
      ELSE IF ending_len > EMOJI_ORDER_len THEN [result EXCEPT !.status = "panic"]
      ELSE [result EXCEPT !.edited = TRUE, !.labels = looped.labels,
                          !.reactions = [i \in 1..count |-> existing_len + i - 1]]

OptionInit ==
  /\ Constructed
  /\ callee = NoCall
  /\ world = NoWorld
  /\ outcome = NoOutcome
  /\ NoCommands
  /\ \E existing_len \in 0..MAX_OPTIONS, options \in OptionLists :
       adding = [NoAdding EXCEPT !.existing = existing_len, !.options = options]

option_add ==
  /\ ~adding.called
  /\ LET done == do_option_add(adding.existing, adding.options)
     IN  adding' = [adding EXCEPT !.called = TRUE, !.status = done.status,
                                  !.edited = done.edited, !.labels = done.labels,
                                  !.reactions = done.reactions]
  /\ UNCHANGED <<vars_of_scheduler, callee, world, outcome, categories, commands>>

OptionNext == option_add

OptionSpec == OptionInit /\ [][OptionNext]_vars

(* ------------------------- a call on its own -------------------------- *)
(* Task::call on any task, under any answers of the chat platform *)
Tasks ==
  {[kind |-> "Event", item |-> e] : e \in Events}
  \cup {[kind |-> "Poll", item |-> p] : p \in [message : Uids, topic : Topics]}

CallInit ==
  /\ Constructed
  /\ callee \in Tasks
  /\ world \in Worlds
  /\ outcome = NoOutcome
  /\ NoCommands
  /\ adding = NoAdding

Call ==
  /\ ~outcome.called
  /\ LET done == Task_call(callee, world)
     IN  outcome' = [requests |-> done.requests, panicked |-> done.panicked,
                     called |-> TRUE]
  /\ UNCHANGED <<store, watching, dirty, op, ret, nextUid, nOps, hist, run,
                 callee, world, categories, commands, adding>>

CallNext == Call

CallSpec == CallInit /\ [][CallNext]_vars

(* ------------------------------ checks -------------------------------- *)
(* the step is the EXEC of connection c's call `name`, and it ran *)
Committed(c, name) == Can(c, name, "exec") /\ op'[c].pc = "unwatch"

(* the step is taken by connection c while its call `name` is in flight *)
StepOf(c, name) == op[c].name = name /\ op'[c] # op[c]

(* the step returns from connection c's call `name` *)
Returns(c, name) == ret'.conn = c /\ ret'.op = name

Due(ts) == {i \in DOMAIN schedule : schedule[i] <= ts}

Kept(hash2, hash, gone) ==
  /\ DOMAIN hash2 = DOMAIN hash \ gone
  /\ \A f \in DOMAIN hash2 : hash2[f] = hash[f]

(* C1: in every reachable state the jobs hash and the schedule sorted set *)
(* hold the same ids, whatever the interleaving and wherever a call was   *)
(* cut short by a crash or an error                                       *)
C1_IndexConsistency == DOMAIN jobs = DOMAIN schedule

(* a job is present in both while another id has been used and deleted,   *)
(* and a call is between its EXEC and its UNWATCH                         *)
C1_Witness ==
  /\ DOMAIN jobs # {}
  /\ DOMAIN jobs = DOMAIN schedule
  /\ usedIds \ DOMAIN jobs # {}
  /\ \E c \in Conns : op[c].pc = "unwatch"

(* C2: no job is in the Ok result of get_and_clear_ready_jobs more than   *)
(* once, over all calls of all connections                                *)
C2_ExactlyOnceClaim == \A u \in Uids : returned[u] <= 1

(* a claim has returned a job, and the claim that just returned is empty *)
C2_Witness ==
  /\ ret.op = "get_and_clear_ready_jobs"
  /\ ret.status = "ok"
  /\ ret.val = << >>
  /\ \E u \in Uids : returned[u] = 1

(* C3 as claimed: schedule_job never commits under an id it has committed *)
(* under before                                                           *)
C3_NeverTheSameIdTwice ==
  [][\A c \in Conns : Committed(c, "schedule_job") => op[c].id \notin usedIds]_vars

(* C3 as amended: schedule_job commits only under an id that no present   *)
(* job has: the id is in neither the jobs hash nor the schedule then      *)
C3_FreshWhenCommitted ==
  [][\A c \in Conns :
       Committed(c, "schedule_job") =>
         /\ op[c].id \notin DOMAIN jobs
         /\ op[c].id \notin DOMAIN schedule]_vars

(* schedule_job has returned an id and two jobs are present *)
C3_Witness ==
  /\ ret.op = "schedule_job"
  /\ ret.status = "ok"
  /\ Cardinality(DOMAIN jobs) = 2

(* C4: the EXEC of get_and_clear_ready_jobs(ts) fetches one payload per   *)
(* job due at ts or before and no other, deletes exactly those jobs from  *)
(* both structures and leaves the others as they were; an Ok result has   *)
(* one task per fetched payload, the task that was stored; the early      *)
(* return happens only when nothing is due and changes nothing            *)
C4_ClaimTakesExactlyTheDue ==
  [][\A c \in Conns :
       /\ Committed(c, "get_and_clear_ready_jobs") =>
            LET due == Due(op[c].ts)
                got == op'[c].fetched
            IN  /\ due \subseteq DOMAIN jobs
                /\ Kept(jobs', jobs, due)
                /\ Kept(schedule', schedule, due)
                /\ Len(got) = Cardinality(due)
                /\ {got[k] : k \in 1..Len(got)} = {jobs[i] : i \in due}
       /\ (Returns(c, "get_and_clear_ready_jobs") /\ ret'.status = "ok") =>
            LET got == op[c].fetched
            IN  /\ Len(ret'.val) = Len(got)
                /\ \A k \in 1..Len(got) : got[k].kind = "poll" /\ ret'.val[k] = got[k].src
                /\ got = << >> => Due(op[c].ts) = {} /\ store' = store]_vars

(* a claim has returned one job and another, due later, is still there *)
C4_Witness ==
  /\ ret.op = "get_and_clear_ready_jobs"
  /\ ret.status = "ok"
  /\ Len(ret.val) = 1
  /\ \E i \in DOMAIN schedule : schedule[i] > ret.arg

(* C5: get_job on a job written by schedule_job (or edit_job) returns the *)
(* task it was given; so does the first version's get_job on a job its    *)
(* schedule_job wrote                                                     *)
C5_RoundTrip ==
  /\ (ret.op = "get_job" /\ ret.arg \in DOMAIN jobs /\ jobs[ret.arg].kind = "poll")
       => (ret.status = "ok" /\ ret.val = <<jobs[ret.arg].src>>)
  /\ (ret.op = "legacy_get_job" /\ ret.arg \in DOMAIN jobs
        /\ jobs[ret.arg].kind = "legacy")
       => (ret.status = "ok" /\ ret.val = <<jobs[ret.arg].src>>)

(* get_job has returned the poll that schedule_job stored *)
C5_Witness ==
  /\ ret.op = "get_job"
  /\ ret.status = "ok"
  /\ ret.val[1].topic \in Topics

(* C6: the EXEC of edit_job(task, id, time) makes the payload of id the   *)
(* encoding of task, sets its due time to time if one is given and leaves *)
(* it otherwise, and changes no other entry                               *)
C6_EditKeepsOrSetsTime ==
  [][\A c \in Conns :
       Committed(c, "edit_job") =>
         LET id == op[c].id
         IN  /\ id \in DOMAIN jobs /\ id \in DOMAIN schedule
             /\ DOMAIN jobs' = DOMAIN jobs /\ DOMAIN schedule' = DOMAIN schedule
             /\ get_job_result(jobs', id) = Ok("get_job", <<op[c].src>>)
             /\ jobs'[id].uid = jobs[id].uid
             /\ schedule'[id] = IF op[c].time = << >> THEN schedule[id]
                                ELSE op[c].time[1]
             /\ \A i \in DOMAIN jobs \ {id} :
                  jobs'[i] = jobs[i] /\ schedule'[i] = schedule[i]
             /\ message' = message]_vars

(* a claim at the latest time has returned the edited task of a job that  *)
(* was scheduled earlier                                                  *)
C6_Witness ==
  /\ ret.op = "get_and_clear_ready_jobs"
  /\ ret.status = "ok"
  /\ ret.arg = MaxTime
  /\ Len(ret.val) = 1
  /\ ret.val[1] \in EditTasks

(* C7: while the id of an edit_job call is absent from the jobs hash, no  *)
(* step of the call changes the store, and the step after the HEXISTS     *)
(* ends the call with the error No job found (unless the round trip       *)
(* itself fails or the process dies)                                      *)
C7_EditOfAbsentJob ==
  [][\A c \in Conns :
       (StepOf(c, "edit_job") /\ op[c].id \notin DOMAIN jobs) =>
         /\ store' = store
         /\ (op[c].pc = "hexists" /\ Returns(c, "edit_job") /\ ret'.err # "transport")
              => (ret'.status = "err" /\ ret'.err = "No job found"
                  /\ op'[c].pc = "idle")]_vars

(* edit_job has returned No job found for an id that a job had before *)
C7_Witness ==
  /\ ret.op = "edit_job"
  /\ ret.err = "No job found"
  /\ ret.arg \in usedIds
  /\ ret.arg \notin DOMAIN jobs

C9_RemoveDeletesAllAtOnce ==
  [][\A c \in Conns :
       /\ Committed(c, "remove_job") =>
            /\ op[c].id \in DOMAIN jobs /\ op[c].id \in DOMAIN schedule
            /\ Kept(jobs', jobs, {op[c].id})
            /\ Kept(schedule', schedule, {op[c].id})
            /\ Kept(message', message, {op[c].msg})
       /\ (Returns(c, "get_and_clear_ready_jobs") /\ ret'.status = "ok") =>
            \A k \in 1..Len(op[c].fetched) : op[c].fetched[k].uid \notin removed]_vars

(* a job has been removed, with its message key, and another is present *)
C9_Witness ==
  /\ ret.op = "remove_job"
  /\ ret.status = "ok"
  /\ removed # {}
  /\ ret.arg \notin DOMAIN message
  /\ DOMAIN jobs # {}

(* C10 as claimed: when get_and_clear_ready_jobs returns an error, every  *)
(* job it had found due is still in the jobs hash and in the schedule     *)
C10_NothingLostOnError ==
  [][\A c \in Conns :
       (Returns(c, "get_and_clear_ready_jobs") /\ ret'.status = "err") =>
         \A k \in 1..Len(op[c].fetched) :
           \E i \in DOMAIN jobs' \cap DOMAIN schedule' :
             jobs'[i].uid = op[c].fetched[k].uid]_vars

(* a poll job that is in the jobs hash and the schedule while no message  *)
(* key names its id: the key has expired                                  *)
Orphaned(i) ==
  /\ i \in DOMAIN jobs /\ i \in DOMAIN schedule
  /\ jobs[i].kind = "poll"
  /\ jobs[i].uid \notin DOMAIN message

(* C11 as claimed: a job whose message key is gone is still read by       *)
(* get_job, changed by edit_job, taken by a claim at its due time, and    *)
(* removed by remove_job: when remove_job(message_id) returns Ok, the job *)
(* scheduled under that message id is no longer in the store              *)
C11_ManagedWithoutMessageKey ==
  [][\A c \in Conns :
       /\ \A i \in Ids :
            Orphaned(i) =>
              /\ (Returns(c, "get_job") /\ ret'.arg = i) => ret'.status = "ok"
              /\ (Can(c, "edit_job", "hexists") /\ op[c].id = i
                    /\ StepOf(c, "edit_job") /\ Returns(c, "edit_job"))
                   => ret'.err # "No job found"
              /\ (Committed(c, "get_and_clear_ready_jobs") /\ schedule[i] <= op[c].ts)
                   => i \notin DOMAIN jobs'
       /\ (Returns(c, "remove_job") /\ ret'.status = "ok") =>
            \A i \in DOMAIN jobs' :
              ~(jobs'[i].kind = "poll" /\ jobs'[i].uid = ret'.arg)]_vars

(* C12: get_job(id) returns the error No job found exactly when id is     *)
(* not in the jobs hash, the stored poll when id holds one, and changes   *)
(* nothing in the store                                                   *)
C12_GetJobOfAbsentId ==
  [][\A c \in Conns :
       Returns(c, "get_job") =>
         /\ store' = store
         /\ ret'.arg \notin DOMAIN jobs =>
              (ret'.status = "err" /\ ret'.err = "No job found")
         /\ ret'.arg \in DOMAIN jobs =>
              /\ ret'.err # "No job found"
              /\ jobs[ret'.arg].kind = "poll" =>
                   (ret'.status = "ok" /\ ret'.val = <<jobs[ret'.arg].src>>)]_vars

(* get_job has returned No job found for the id of a job that a claim     *)
(* returned or remove_job deleted, and that no job has now                *)
C12_Witness ==
  /\ ret.op = "get_job"
  /\ ret.err = "No job found"
  /\ ret.arg \in usedIds
  /\ ret.arg \notin DOMAIN jobs
  /\ (removed # {} \/ \E u \in Uids : returned[u] = 1)

(* C13: get_ready_jobs(ts) never changes the store; its EXEC fetches one  *)
(* payload per job due at ts or before and no other, which is what the    *)
(* EXEC of get_and_clear_ready_jobs(ts) fetches in that state; its Ok     *)
(* result is the stored tasks of the fetched payloads                     *)
C13_PeekTakesNothing ==
  [][\A c \in Conns :
       /\ StepOf(c, "get_ready_jobs") => store' = store
       /\ Committed(c, "get_ready_jobs") =>
            LET due == Due(op[c].ts)
                got == op'[c].fetched
            IN  /\ due \subseteq DOMAIN jobs
                /\ Len(got) = Cardinality(due)
                /\ {got[k] : k \in 1..Len(got)} = {jobs[i] : i \in due}
                /\ got = MyVec(hget_reply(jobs, ZRangeByScore(schedule, op[c].ts)))
       /\ (Returns(c, "get_ready_jobs") /\ ret'.status = "ok") =>
            LET got == op[c].fetched
            IN  /\ Len(ret'.val) = Len(got)
                /\ \A k \in 1..Len(got) : ret'.val[k] = got[k].src
                /\ got = << >> => Due(op[c].ts) = {}]_vars

(* get_ready_jobs has returned a job that is still in the jobs hash and   *)
(* the schedule, due at the time asked for                                *)
C13_Witness ==
  /\ ret.op = "get_ready_jobs"
  /\ ret.status = "ok"
  /\ Len(ret.val) >= 1
  /\ \E i \in DOMAIN jobs :
       /\ jobs[i].src = ret.val[1]
       /\ i \in DOMAIN schedule /\ schedule[i] <= ret.arg

(* the step is a call of a job by a task of process c *)
Calls(c) == executed' # executed /\ spawned'[c] # spawned[c]

Pending(u) ==
  \E c \in Conns :
    \/ \E t \in spawned[c] : \E k \in DOMAIN t : t[k].uid = u
    \/ /\ op[c].name \in {"get_and_clear_ready_jobs", "pop_job"}
       /\ op[c].pc = "unwatch"
       /\ \E k \in DOMAIN op[c].fetched : op[c].fetched[k].uid = u

C15_FailureIsContained ==
  [][\A c \in Conns :
       Calls(c) =>
         /\ dispatch'[c].running
         /\ \A t \in spawned[c] \ spawned'[c] :
              Tail(t) # << >> => Tail(t) \in spawned'[c]]_vars

(* C16 as claimed, its safety part: a job that a claim has deleted from   *)
(* the store has been called, or is still to be called by a task, or is   *)
(* held by the claim that is about to return it; otherwise nothing will   *)
(* ever call it                                                           *)
C16_ClaimedJobsAreExecuted ==
  \A u \in claimed : executed[u] >= 1 \/ Pending(u)

(* C17: a claim that returns an error leaves the dispatch loop running    *)
(* and idle, so that the next tick can claim, and spawns nothing; and a   *)
(* claim that commits after failed ticks takes exactly the jobs due then  *)
C17_FailedTickIsSkipped ==
  [][\A c \in Conns :
       /\ (Returns(c, "get_and_clear_ready_jobs") /\ ret'.status = "err") =>
            /\ dispatch'[c].running
            /\ dispatch'[c].failures = dispatch[c].failures + 1
            /\ op'[c].pc = "idle"
            /\ spawned' = spawned
       /\ (Committed(c, "get_and_clear_ready_jobs") /\ dispatch[c].failures > 0) =>
            /\ Due(op[c].ts) # {}
            /\ Kept(jobs', jobs, Due(op[c].ts))
            /\ Kept(schedule', schedule, Due(op[c].ts))
            /\ {op'[c].fetched[k] : k \in DOMAIN op'[c].fetched}
                 = {jobs[i] : i \in Due(op[c].ts)}]_vars

(* a claim has returned a job to a dispatch loop that had a failed tick *)
C17_Witness ==
  /\ ret.op = "get_and_clear_ready_jobs"
  /\ ret.status = "ok"
  /\ Len(ret.val) >= 1
  /\ dispatch[ret.conn].failures >= 1
  /\ spawned[ret.conn] # {}

Asked(kind) == \E k \in DOMAIN outcome.requests : outcome.requests[k].kind = kind

(* C18 as claimed: after Event::call with a failed send, and after        *)
(* Poll::call with a failed fetch, the author (when to_user finds them)   *)
(* has been sent a direct message; the Poll::call has said nothing in the *)
(* channel and has not panicked                                           *)
C18_FailureIsReported ==
  outcome.called =>
    /\ (callee.kind = "Event" /\ ~world.send /\ world.user) => Asked("dm")
    /\ (callee.kind = "Poll" /\ ~world.fetch.found) =>
         /\ world.user => Asked("dm")
         /\ ~Asked("say")
         /\ ~outcome.panicked

Scheduling(c) == op[c].name \in {"schedule_job", "legacy_schedule_job"}

CommittedScheduling(c) ==
  Committed(c, "schedule_job") \/ Committed(c, "legacy_schedule_job")

(* the EXEC of a schedule_job adds a job under a free id and leaves every *)
(* job there is as it was                                                 *)
AddsUnderFreeId(c) ==
  /\ op[c].id \notin DOMAIN jobs
  /\ op[c].id \notin DOMAIN schedule
  /\ DOMAIN jobs' = DOMAIN jobs \cup {op[c].id}
  /\ \A i \in DOMAIN jobs : jobs'[i] = jobs[i] /\ schedule'[i] = schedule[i]

(* C19 as claimed: schedule_job, of either version, commits only under an *)
(* id that no job has then and overwrites nothing, and it makes its       *)
(* HEXISTS on the jobs hash while it watches the jobs hash                *)
C19_FreshIdUnderWatchedJobs ==
  [][\A c \in Conns :
       /\ CommittedScheduling(c) => AddsUnderFreeId(c)
       /\ (Scheduling(c) /\ op[c].pc = "hexists") => JobsKey \in watching[c]]_vars

(* C19 as amended: schedule_job, of either version, commits only under   *)
(* an id that no job has then and overwrites nothing; the version of      *)
(* util/scheduler.rs makes its HEXISTS while it watches the jobs hash,    *)
(* the version of src/scheduler.rs while it watches the schedule only     *)
C19_FreshIdAtCommit ==
  [][\A c \in Conns :
       /\ CommittedScheduling(c) => AddsUnderFreeId(c)
       /\ Can(c, "schedule_job", "hexists") => JobsKey \in watching[c]
       /\ Can(c, "legacy_schedule_job", "hexists") => ScheduleKey \in watching[c]]_vars

(* two schedule_job calls had the same candidate id: one has committed    *)
(* under it, the EXEC of the other is about to be refused                 *)
C19_Witness ==
  \E c, d \in Conns :
    /\ c # d
    /\ Scheduling(c) /\ op[c].pc = "exec" /\ dirty[c]
    /\ Scheduling(d) /\ op[d].pc = "unwatch"
    /\ op[d].id = op[c].id
    /\ op[c].id \in DOMAIN jobs

(* what the body of a call has read agrees with the store *)
ReadsHold(c) ==
  LET o == op[c]
  IN  CASE o.name \in {"schedule_job", "legacy_schedule_job"} -> ~HExists(jobs, o.id)
        [] o.name = "edit_job" -> HExists(jobs, o.id)
        [] o.name = "remove_job" -> o.score # << >> /\ o.score = ZScore(schedule, o.id)
        [] o.name \in {"get_and_clear_ready_jobs", "get_ready_jobs", "clear_ready_jobs"}
             -> o.ready # << >> /\ o.ready = ZRangeByScore(schedule, o.ts)
        [] OTHER -> TRUE

(* C20: an EXEC that finds a watched key modified writes nothing and      *)
(* sends the call back to its WATCH, from where it makes its first read   *)
(* again; an EXEC that runs is that of a call no watched key of which was *)
(* modified, and what the call's body has read still holds then           *)
C20_AbortedBodyRunsAgain ==
  [][\A c \in Conns :
       /\ (op[c].pc = "exec" /\ dirty[c] /\ StepOf(c, op[c].name)
             /\ ret' = NoRet /\ op'[c].pc # "idle") =>
            /\ store' = store
            /\ op'[c].pc = "watch"
            /\ op'[c].ready = << >> /\ op'[c].score = << >>
       /\ (op[c].pc = "watch" /\ StepOf(c, op[c].name) /\ op'[c].pc # "idle") =>
            /\ store' = store
            /\ op'[c].pc = FirstRead(op[c])
            /\ WatchedKeys(op[c]) \subseteq watching'[c]
       /\ (op[c].pc = "exec" /\ op'[c].pc = "unwatch") =>
            /\ ~dirty[c]
            /\ ReadsHold(c)]_vars

(* an edit_job whose EXEC was refused is back at its WATCH, and the job   *)
(* its HEXISTS had found is gone: the body will read again and not find it *)
C20_Witness ==
  \E c \in Conns :
    /\ op[c].name = "edit_job"
    /\ op[c].pc = "watch"
    /\ op[c].id \notin DOMAIN jobs
    /\ op[c].id \in usedIds

(* C21: a retrying call (schedule_job, edit_job, remove_job,              *)
(* get_and_clear_ready_jobs) is not failed by contention: a refused EXEC   *)
(* sends the call back to its WATCH and returns nothing, an EXEC is        *)
(* refused only after another connection's EXEC ran since the WATCH, and   *)
(* on a store that answers every call in flight eventually returns        *)
Refused(c) == op[c].pc = "exec" /\ dirty[c] /\ op'[c] # op[c]

C21_ContentionOnlyRetries ==
  /\ [][\A c \in Conns :
          /\ Refused(c) => op'[c].pc = "watch" /\ ret' = NoRet
          /\ (dirty'[c] /\ ~dirty[c]) =>
                \E d \in Conns \ {c} : op[d].pc = "exec" /\ op'[d].pc = "unwatch"
          /\ (ret'.conn = c /\ ret'.status = "err") =>
                ret'.op = "edit_job" /\ ret'.err = "No job found"]_vars
  /\ \A c \in Conns : (op[c].pc # "idle") ~> (op[c].pc = "idle")

(* C21 witness: a schedule_job whose EXEC was refused is back at its WATCH *)
(* while the other connection's job is stored                             *)
C21_Witness ==
  \E c \in Conns :
    /\ Can(c, "schedule_job", "watch")
    /\ jobs # << >>

(* the job of poll message u is held by a spawned task, not yet called *)
Waiting(u) ==
  \E c \in Conns : \E t \in spawned[c] : \E k \in DOMAIN t : t[k].uid = u

(* the step is the call of the job of poll message u *)
Executes(u) == \E c \in Conns : call(c) /\ executed'[u] = executed[u] + 1

(* C22 as claimed: the jobs of one claim are executed independently: a    *)
(* claimed job that has not been called yet can be called now, whatever    *)
(* has become of the other jobs of its tick                                *)
C22_JobsOfATickRunIndependently ==
  \A u \in Uids : Waiting(u) => ENABLED Executes(u)

(* a call of a producer (a command handler) is in flight on connection d *)
Producing(d) == op[d].name \in {"schedule_job", "edit_job", "remove_job"}

(* C23: claimed jobs are executed outside the lock and outside any        *)
(* transaction: when a task receives its jobs the claiming call has        *)
(* returned and its connection watches nothing; a call of a job takes no   *)
(* scheduler call, watches nothing and writes nothing to the store; and    *)
(* while a task holds jobs to call, a producer's call in flight can take   *)
(* its next step                                                           *)
C23_ExecutionOutsideTheLock ==
  /\ [][\A c \in Conns :
          /\ (spawned'[c] \ spawned[c] # {}) =>
                op'[c].pc = "idle" /\ watching'[c] = {}
          /\ Calls(c) =>
                op' = op /\ watching' = watching /\ dirty' = dirty /\ store' = store]_vars
  /\ [](\A c, d \in Conns :
          (spawned[c] # {} /\ Producing(d)) => ENABLED Proceed(d))

(* C23 witness: a task holds a claimed job while a schedule_job is about  *)
(* to send its EXEC on the connection the job was claimed on              *)
C23_Witness ==
  \E c \in Conns :
    /\ spawned[c] # {}
    /\ Can(c, "schedule_job", "exec")

(* the step starts a scheduler call on connection c *)
Starts(c) == nOps' = nOps + 1 /\ op'[c] # op[c]

(* C24: the calls on one connection do not interleave: a call starts on a *)
(* connection only when no call is between its WATCH and its return       *)
(* there, and a call in flight stays the connection's call until it        *)
(* returns                                                                 *)
C24_OneCallPerConnection ==
  [][\A c \in Conns :
       /\ Starts(c) => op[c].pc = "idle"
       /\ (op[c].pc # "idle" /\ op'[c].pc # "idle") => op'[c].name = op[c].name]_vars

(* C24 witness: a call waits at its EXEC on each connection, and a third  *)
(* call cannot start on either before one of them returns                 *)
C24_Witness ==
  /\ \A c \in Conns : op[c].pc = "exec"
  /\ nOps < MaxOps

(* the reference result of a poll: for every reaction whose emoji stands  *)
(* for one of the options, the pair of its count less the bot's own vote   *)
(* and the option                                                          *)
ReferenceTally(msg) ==
  LET options == IF msg.embeds[1] = << >> THEN << >> ELSE msg.embeds[1][1]
  IN  {<<msg.reactions[k].count - 1, options[msg.reactions[k].emoji]>> :
         k \in {j \in DOMAIN msg.reactions :
                  msg.reactions[j].emoji \in 1..Len(options)}}

ReferenceWinners(msg) ==
  {p \in ReferenceTally(msg) : \A q \in ReferenceTally(msg) : p[1] >= q[1]}

Lists(seq, set) == SeqToSet(seq) = set /\ Len(seq) = Cardinality(set)

(* C25 as claimed: Poll::call on a message that was fetched and has an    *)
(* embed completes and says the reference result: the winners, then the    *)
(* other voted options by descending tally; also when no reaction stands   *)
(* for an option                                                           *)
C25_CallSaysTheReferenceResult ==
  (outcome.called /\ callee.kind = "Poll" /\ world.fetch.found
     /\ world.fetch.embeds # << >>) =>
    /\ ~outcome.panicked
    /\ \E k \in DOMAIN outcome.requests :
         LET said == outcome.requests[k]
         IN  /\ said.kind = "say"
             /\ Lists(said.body[1], ReferenceWinners(world.fetch))
             /\ Lists(said.body[2], ReferenceTally(world.fetch)
                                      \ ReferenceWinners(world.fetch))
             /\ \A i, j \in DOMAIN said.body[2] :
                  i < j => said.body[2][i][1] >= said.body[2][j][1]

(* C26 as claimed: when a call of the scheduler returns, with a value,    *)
(* with an error or early, its connection watches no key                   *)
C26_NoWatchAfterReturn ==
  [][\A c \in Conns : ret'.conn = c => watching'[c] = {}]_vars

(* C27 as claimed: when the body of transaction has yielded               *)
(* Some(response), transaction returns Ok(response)                       *)
C27_SomeIsReturnedOk ==
  [][\A c \in Conns :
       (Can(c, "transaction", "unwatch") /\ ret'.conn = c) => ret'.status = "ok"]_vars

(* C28 as claimed: no update of the member list is lost: when no signup   *)
(* and no leave is being handled, the stored event's members are those the *)
(* signups and leaves handled so far have asked for, whatever reschedules  *)
(* ran among them                                                          *)
C28_NoMemberUpdateIsLost ==
  (\A h \in Handlers : handler[h].cmd \notin {"signup", "leave"}) =>
    event_job.members = signups

(* C29: an execution that has not returned does not hold up the ticks:    *)
(* while a task still holds jobs to call, the dispatch loop can start its  *)
(* next get_and_clear_ready_jobs as soon as the scheduler is free          *)
C29_TicksDoNotWaitForTasks ==
  \A c \in Conns :
    (spawned[c] # {} /\ op[c].pc = "idle" /\ nOps < MaxOps) =>
      ENABLED get_and_clear_ready_jobs(c)

(* C29 witness: the claim of a later tick is in flight while the task of  *)
(* an earlier tick still holds its job                                     *)
C29_Witness ==
  \E c \in Conns :
    /\ spawned[c] # {}
    /\ Can(c, "get_and_clear_ready_jobs", "range")

(* the options of the call that the poll does not list yet *)
Fresh == SeqToSet(adding.options) \ (1..adding.existing)

NextUnused == [i \in 1..Cardinality(Fresh) |-> adding.existing + i - 1]

(* C30 as claimed: do_option_add keeps the limit of 20 options: with n    *)
(* options listed and k new ones it never indexes FORMAT_STRINGS or        *)
(* EMOJI_ORDER outside 0..19; when n + k <= 20 it edits the message,       *)
(* labelling the new options FORMAT_STRINGS[n..n+k] and seeding the        *)
(* reactions EMOJI_ORDER[n..n+k]; when n + k > 20 it returns an error and  *)
(* edits nothing                                                           *)
C30_OptionLimit ==
  (adding.called /\ Fresh # {}) =>
    /\ adding.status # "panic"
    /\ adding.existing + Cardinality(Fresh) <= MAX_OPTIONS =>
         /\ adding.status = "ok"
         /\ adding.edited
         /\ adding.labels = NextUnused
         /\ adding.reactions = NextUnused
    /\ adding.existing + Cardinality(Fresh) > MAX_OPTIONS =>
         adding.status = "err" /\ ~adding.edited

====
